---------------------------- MODULE Spec2Model ----------------------------
(***************************************************************************)
(* Model of reedys-big-tides: the low -> high pairer of                     *)
(* make_tides_json.py (build_low_to_high_pairs), the PDF text parser with   *)
(* its calendar resolver and event store (parse_from_text), and the         *)
(* next-turn finder of scripts/make_tide_next_json.py (build_payload).      *)
(*                                                                         *)
(* Heights are integers in thousandths of a metre, so that rounding to two  *)
(* decimals (a multiple of 10 here) is a real conversion.  Clock times are  *)
(* sequences of one-character strings, as the code keeps them as strings.   *)
(***************************************************************************)
EXTENDS Integers, Sequences, FiniteSets, TLC

VARIABLES
    \* build_low_to_high_pairs
    events,        \* the argument: one day's observations
    classified,    \* the list `classified` of (time, rounded height, kind)
    pairs,         \* the list `pairs`
    i,             \* the index of the pairing loop (0-based, as in the code)
    pc,            \* position in the function
    run,           \* "first", or which re-run of the idempotence experiment
    first_pairs,   \* the pairs of the first run, kept for the re-run
    \* parse_from_text
    data,              \* the dict `data`: date key -> list of TideEvent
    current_month,     \* 0 stands for None
    current_year,
    last_month_seen,   \* 0 stands for None
    lines,             \* the lines of the page being read
    ln,                \* the line the running loop is at (1-based)
    ppc,               \* position in the function
    row_pairs,         \* the list `pairs` of the row, what is left to add
    dkey,              \* the date key of the row
    npages,            \* pages read so far
    \* history of the document read, for the statements about it
    page_headed,       \* an earlier page held a heading
    prev_heading,      \* the month of the latest heading scanned, 0 if none
    rollover_from,     \* the year a year-less DECEMBER -> JANUARY left, or NoYear
    \* build_payload of scripts/make_tide_next_json.py
    nt_events,         \* the argument `events`, sorted by dt
    nt_now,            \* `current`, what now() returned
    payload,           \* what build_payload returned
    npc                \* position: "load" or "done"

pvars == <<events, classified, pairs, i, pc, run, first_pairs>>

tvars == <<data, current_month, current_year, last_month_seen, lines, ln, ppc,
           row_pairs, dkey, npages, page_headed, prev_heading, rollover_from>>

nvars == <<nt_events, nt_now, payload, npc>>

vars == <<pvars, tvars, nvars>>

-----------------------------------------------------------------------------
(* Bounds of the model *)

MaxLen == 5

\* Heights an observation may carry, in thousandths of a metre.  None ends in
\* the digit 5, so no value is a rounding tie.
Heights == {96, 104, 200, 300, 400}

T0030 == <<"0", "0", "3", "0">>
T0630 == <<"0", "6", "3", "0">>

T1230 == <<"1", "2", "3", "0">>

Times == {T0030, T0630, T1230}

-----------------------------------------------------------------------------
(* Helpers *)

DigitVal(c) ==
    CASE c = "0" -> 0 [] c = "1" -> 1 [] c = "2" -> 2 [] c = "3" -> 3
      [] c = "4" -> 4 [] c = "5" -> 5 [] c = "6" -> 6 [] c = "7" -> 7
      [] c = "8" -> 8 [] c = "9" -> 9

\* Python's str comparison a < b on strings of digits: lexicographic.
RECURSIVE StrLess(_, _)
StrLess(a, b) ==
    IF b = <<>> THEN FALSE
    ELSE IF a = <<>> THEN TRUE
    ELSE IF DigitVal(Head(a)) < DigitVal(Head(b)) THEN TRUE
    ELSE IF DigitVal(Head(a)) > DigitVal(Head(b)) THEN FALSE
    ELSE StrLess(Tail(a), Tail(b))

\* round(h, 2) on a height in thousandths: the nearest multiple of 10.
Round2(h) == ((h + 5) \div 10) * 10

\* InsertByTime with e placed before the elements of equal key: an unstable sort.
RECURSIVE InsertBeforeEqual(_, _)
InsertBeforeEqual(s, e) ==
    IF s = <<>> THEN <<e>>
    ELSE IF ~StrLess(Head(s).time_hhmm, e.time_hhmm) THEN <<e>> \o s
    ELSE <<Head(s)>> \o InsertBeforeEqual(Tail(s), e)

\* Insert e into the time-sorted s after every element whose key is <= its own.
RECURSIVE InsertByTime(_, _)
InsertByTime(s, e) ==
    IF s = <<>> THEN <<e>>
    ELSE IF StrLess(e.time_hhmm, Head(s).time_hhmm) THEN <<e>> \o s
    ELSE <<Head(s)>> \o InsertByTime(Tail(s), e)

\* sorted(events, key=lambda e: e.time_hhmm): a stable sort by time.
RECURSIVE SortByTime(_)
SortByTime(s) ==
    IF s = <<>> THEN <<>>
    ELSE InsertByTime(SortByTime(SubSeq(s, 1, Len(s) - 1)), s[Len(s)])

-----------------------------------------------------------------------------
(* build_low_to_high_pairs *)

\* KindAt with the interior tests in the other order: "high" is tried first.
KindAtHighFirst(hs, k) ==
    IF k = 0 THEN (IF hs[k + 1] <= hs[k + 2] THEN "low" ELSE "high")
    ELSE IF k = Len(hs) - 1
        THEN (IF hs[k + 1] >= hs[k] THEN "high" ELSE "low")
    ELSE LET prev_h == hs[k]
             next_h == hs[k + 2]
             h == hs[k + 1]
         IN  IF h >= prev_h /\ h >= next_h THEN "high"
             ELSE IF h <= prev_h /\ h <= next_h THEN "low"
             ELSE IF h > prev_h THEN "high" ELSE "low"

\* The kind of index k (0-based) of the height list hs, len(hs) >= 2.
KindAt(hs, k) ==
    IF k = 0 THEN (IF hs[k + 1] <= hs[k + 2] THEN "low" ELSE "high")
    ELSE IF k = Len(hs) - 1
        THEN (IF hs[k + 1] >= hs[k] THEN "high" ELSE "low")
    ELSE LET prev_h == hs[k]
             next_h == hs[k + 2]
             h == hs[k + 1]
         IN  IF h <= prev_h /\ h <= next_h THEN "low"
             ELSE IF h >= prev_h /\ h >= next_h THEN "high"
             ELSE IF h > prev_h THEN "high" ELSE "low"

\* Classify keeping the heights as ingested, without round(height, 2).
ClassifyUnrounded(evs) ==
    LET ev == SortByTime(evs)
        heights == [k \in 1..Len(ev) |-> ev[k].height_m]
    IN  [k \in 1..Len(ev) |->
            <<ev[k].time_hhmm, ev[k].height_m, KindAt(heights, k - 1)>>]

\* The classification loop: classified[k] = (time, round(height, 2), kind).
Classify(evs) ==
    LET ev == SortByTime(evs)
        heights == [k \in 1..Len(ev) |-> ev[k].height_m]
    IN  [k \in 1..Len(ev) |->
            <<ev[k].time_hhmm, Round2(ev[k].height_m), KindAt(heights, k - 1)>>]

\* The inner while: the first index j >= from (0-based) whose kind is "high",
\* or len(classified) when there is none.
RECURSIVE NextHigh(_, _)
NextHigh(cl, from) ==
    IF from < Len(cl) /\ cl[from + 1][3] # "high"
    THEN NextHigh(cl, from + 1)
    ELSE from

\* The dict appended to `pairs`.
MakePair(lo, hi) ==
    [low_time |-> lo[1], low_m |-> Round2(lo[2]),
     high_time |-> hi[1], high_m |-> Round2(hi[2]),
     move_m |-> Round2(hi[2] - lo[2])]

\* if len(events) < 2: return []
ReturnEmpty ==
    /\ pc = "start"
    /\ Len(events) < 2
    /\ pc' = "done"
    /\ UNCHANGED <<events, classified, pairs, i, run, first_pairs>>
    /\ UNCHANGED <<tvars, nvars>>

\* The classification loop, then pairs = [], i = 0.
ClassifyAll ==
    /\ pc = "start"
    /\ Len(events) >= 2
    /\ classified' = Classify(events)
    /\ pairs' = <<>>
    /\ i' = 0
    /\ pc' = "pair"
    /\ UNCHANGED <<events, run, first_pairs>>
    /\ UNCHANGED <<tvars, nvars>>

\* if kind != "low": i += 1; continue
SkipNotLow ==
    /\ pc = "pair"
    /\ i < Len(classified)
    /\ classified[i + 1][3] # "low"
    /\ i' = i + 1
    /\ UNCHANGED <<events, classified, pairs, pc, run, first_pairs>>
    /\ UNCHANGED <<tvars, nvars>>

\* if j >= len(classified): break
BreakNoHigh ==
    /\ pc = "pair"
    /\ i < Len(classified)
    /\ classified[i + 1][3] = "low"
    /\ NextHigh(classified, i + 1) >= Len(classified)
    /\ pc' = "done"
    /\ UNCHANGED <<events, classified, pairs, i, run, first_pairs>>
    /\ UNCHANGED <<tvars, nvars>>

\* RejectNotRising resuming after the rejected high instead of after the low.
RejectSkipPastHigh ==
    /\ pc = "pair"
    /\ i < Len(classified)
    /\ classified[i + 1][3] = "low"
    /\ LET j == NextHigh(classified, i + 1)
       IN  /\ j < Len(classified)
           /\ classified[j + 1][2] <= classified[i + 1][2]
           /\ i' = j + 1
    /\ UNCHANGED <<events, classified, pairs, pc, run, first_pairs>>
    /\ UNCHANGED <<tvars, nvars>>

\* if h_high <= h_low: i += 1; continue
RejectNotRising ==
    /\ pc = "pair"
    /\ i < Len(classified)
    /\ classified[i + 1][3] = "low"
    /\ LET j == NextHigh(classified, i + 1)
       IN  /\ j < Len(classified)
           /\ classified[j + 1][2] <= classified[i + 1][2]
    /\ i' = i + 1
    /\ UNCHANGED <<events, classified, pairs, pc, run, first_pairs>>
    /\ UNCHANGED <<tvars, nvars>>

\* EmitPair resuming after the paired low instead of after the paired high.
EmitPairResumeAfterLow ==
    /\ pc = "pair"
    /\ i < Len(classified)
    /\ classified[i + 1][3] = "low"
    /\ LET j == NextHigh(classified, i + 1)
       IN  /\ j < Len(classified)
           /\ classified[j + 1][2] > classified[i + 1][2]
           /\ pairs' = Append(pairs, MakePair(classified[i + 1], classified[j + 1]))
           /\ i' = i + 1
    /\ UNCHANGED <<events, classified, pc, run, first_pairs>>
    /\ UNCHANGED <<tvars, nvars>>

\* pairs.append({...}); i = j + 1
EmitPair ==
    /\ pc = "pair"
    /\ i < Len(classified)
    /\ classified[i + 1][3] = "low"
    /\ LET j == NextHigh(classified, i + 1)
       IN  /\ j < Len(classified)
           /\ classified[j + 1][2] > classified[i + 1][2]
           /\ pairs' = Append(pairs, MakePair(classified[i + 1], classified[j + 1]))
           /\ i' = j + 1
    /\ UNCHANGED <<events, classified, pc, run, first_pairs>>
    /\ UNCHANGED <<tvars, nvars>>

\* The while condition fails: return pairs.
LoopEnd ==
    /\ pc = "pair"
    /\ i >= Len(classified)
    /\ pc' = "done"
    /\ UNCHANGED <<events, classified, pairs, i, run, first_pairs>>
    /\ UNCHANGED <<tvars, nvars>>

-----------------------------------------------------------------------------
(* parse_from_text: tokens, headings and day rows.  A line is the sequence  *)
(* of its whitespace-separated tokens, a token a sequence of characters.    *)

MaxPages == 2
MaxLines == 2

base_year == 2026

NoYear == -1
None == -1

JANUARY == <<"J", "A", "N", "U", "A", "R", "Y">>
JAN == <<"J", "A", "N">>
FEBRUARY == <<"F", "E", "B", "R", "U", "A", "R", "Y">>
FEB == <<"F", "E", "B">>
MARCH == <<"M", "A", "R", "C", "H">>
MAR == <<"M", "A", "R">>
APRIL == <<"A", "P", "R", "I", "L">>
APR == <<"A", "P", "R">>
MAY == <<"M", "A", "Y">>
JUNE == <<"J", "U", "N", "E">>
JUN == <<"J", "U", "N">>
JULY == <<"J", "U", "L", "Y">>
JUL == <<"J", "U", "L">>
AUGUST == <<"A", "U", "G", "U", "S", "T">>
AUG == <<"A", "U", "G">>
SEPTEMBER == <<"S", "E", "P", "T", "E", "M", "B", "E", "R">>
SEP == <<"S", "E", "P">>
OCTOBER == <<"O", "C", "T", "O", "B", "E", "R">>
OCT == <<"O", "C", "T">>
NOVEMBER == <<"N", "O", "V", "E", "M", "B", "E", "R">>
NOV == <<"N", "O", "V">>
DECEMBER == <<"D", "E", "C", "E", "M", "B", "E", "R">>
DEC == <<"D", "E", "C">>

\* MONTHS.get(tok), 0 for a token that is no key of MONTHS.
MONTHS(tok) ==
    CASE tok \in {JANUARY, JAN} -> 1
      [] tok \in {FEBRUARY, FEB} -> 2
      [] tok \in {MARCH, MAR} -> 3
      [] tok \in {APRIL, APR} -> 4
      [] tok = MAY -> 5
      [] tok \in {JUNE, JUN} -> 6
      [] tok \in {JULY, JUL} -> 7
      [] tok \in {AUGUST, AUG} -> 8
      [] tok \in {SEPTEMBER, SEP} -> 9
      [] tok \in {OCTOBER, OCT} -> 10
      [] tok \in {NOVEMBER, NOV} -> 11
      [] tok \in {DECEMBER, DEC} -> 12
      [] OTHER -> 0

Digits == {"0", "1", "2", "3", "4", "5", "6", "7", "8", "9"}

\* str.isdigit(): not empty, digits only.
IsDigits(tok) == tok # <<>> /\ \A k \in 1..Len(tok) : tok[k] \in Digits

\* int(tok) of a string of digits.
RECURSIVE IntOf(_)
IntOf(tok) ==
    IF tok = <<>> THEN 0
    ELSE 10 * IntOf(SubSeq(tok, 1, Len(tok) - 1)) + DigitVal(tok[Len(tok)])

\* TIME_RE.fullmatch(tok): three or four digits.
TIME_RE(tok) == Len(tok) \in 3..4 /\ IsDigits(tok)

\* t.strip().zfill(4)
RECURSIVE ztime(_)
ztime(t) == IF Len(t) >= 4 THEN t ELSE ztime(<<"0">> \o t)

\* The value of the digits after the decimal point, in thousandths (the
\* tokens of the model carry at most three of them).
Thousandths(frac) ==
    LET d(k) == IF k <= Len(frac) THEN DigitVal(frac[k]) ELSE 0
    IN  100 * d(1) + 10 * d(2) + d(3)

\* safe_height(token), in thousandths of a metre; None when it returns None.
safe_height(token) ==
    LET s == SelectSeq(token, LAMBDA ch : ch \in Digits \/ ch = ".")
        dots == {k \in 1..Len(s) : s[k] = "."}
    IN  IF s = <<>> \/ Cardinality(dots) > 1 THEN None
        ELSE IF dots = {} THEN 1000 * IntOf(s)
        ELSE IF Len(s) = 1 THEN None
        ELSE LET dot == CHOOSE k \in dots : TRUE
             IN  1000 * IntOf(SubSeq(s, 1, dot - 1))
                   + Thousandths(SubSeq(s, dot + 1, Len(s)))

\* The match of a line that names no month (m is None).
NoMatch == [mnum |-> 0, year |-> NoYear]

\* MONTH_YEAR_RE.search(line): the first month name of the line and, when
\* four digits follow it, the year; NoMatch when the line names no month.
MONTH_YEAR_RE(line) ==
    LET at == {k \in 1..Len(line) : MONTHS(line[k]) # 0}
    IN  IF at = {} THEN NoMatch
        ELSE LET k == CHOOSE x \in at : \A y \in at : x <= y
                 yr == IF k < Len(line) /\ Len(line[k + 1]) >= 4
                          /\ IsDigits(SubSeq(line[k + 1], 1, 4))
                       THEN IntOf(SubSeq(line[k + 1], 1, 4))
                       ELSE NoYear
             IN  [mnum |-> MONTHS(line[k]), year |-> yr]

\* set_month_from_line with the rollover test on last_month_seen alone.
RolloverAfterAnyDecember(line, cm, cy, lms) ==
    LET m == MONTH_YEAR_RE(line)
    IN  IF m = NoMatch THEN <<cm, cy, lms>>
        ELSE <<m.mnum,
               IF m.year # NoYear THEN m.year
               ELSE IF lms = 12 THEN cy + 1
               ELSE cy,
               m.mnum>>

\* set_month_from_line(line): the new (current_month, current_year,
\* last_month_seen).
set_month_from_line(line, cm, cy, lms) ==
    LET m == MONTH_YEAR_RE(line)
    IN  IF m = NoMatch THEN <<cm, cy, lms>>
        ELSE <<m.mnum,
               IF m.year # NoYear THEN m.year
               ELSE IF lms = 12 /\ m.mnum = 1 THEN cy + 1
               ELSE cy,
               m.mnum>>

\* The day number of a day row, 0 for a line that is none.
DayNum(toks) ==
    IF toks # <<>> /\ IsDigits(toks[1]) /\ IntOf(toks[1]) \in 1..31
    THEN IntOf(toks[1])
    ELSE 0

\* The while loop over the tokens from index k (0-based): the (time, height)
\* pairs of the row.
RECURSIVE ScanTokens(_, _)
ScanTokens(toks, k) ==
    IF k + 1 < Len(toks)
    THEN IF TIME_RE(toks[k + 1]) /\ safe_height(toks[k + 2]) # None
         THEN <<<<ztime(toks[k + 1]), safe_height(toks[k + 2])>>>>
              \o ScanTokens(toks, k + 2)
         ELSE ScanTokens(toks, k + 1)
    ELSE <<>>

IsLeap(y) == (y % 4 = 0 /\ y % 100 # 0) \/ y % 400 = 0

DaysIn(y, m) ==
    IF m \in {4, 6, 9, 11} THEN 30
    ELSE IF m = 2 THEN (IF IsLeap(y) THEN 29 ELSE 28)
    ELSE 31

\* date(y, m, d) does not raise ValueError.
ValidDate(y, m, d) ==
    y \in 1..9999 /\ m \in 1..12 /\ d \in 1..DaysIn(y, m)

\* The row of a line is stored: a day row with two pairs or more and a date.
RowAccepted(toks) ==
    /\ DayNum(toks) # 0
    /\ Len(ScanTokens(toks, 1)) >= 2
    /\ ValidDate(current_year, current_month, DayNum(toks))

\* add_event without the test for an existing entry.
AddAlways(d, k, t, h) ==
    LET old == IF k \in DOMAIN d THEN d[k] ELSE <<>>
    IN  [x \in DOMAIN d \cup {k} |->
            IF x = k THEN Append(old, [time_hhmm |-> ztime(t), height_m |-> h])
            ELSE d[x]]

\* add_event(dkey, t, h): the dict after the call.
add_event(d, k, t, h) ==
    LET old == IF k \in DOMAIN d THEN d[k] ELSE <<>>
        t2 == ztime(t)
        existing == {<<old[x].time_hhmm, Round2(old[x].height_m)>> :
                        x \in 1..Len(old)}
    IN  [x \in DOMAIN d \cup {k} |->
            IF x = k
            THEN (IF <<t2, Round2(h)>> \notin existing
                  THEN Append(old, [time_hhmm |-> t2, height_m |-> h])
                  ELSE old)
            ELSE d[x]]

\* The lines a page may hold.
W1 == <<"1">>
W30 == <<"3", "0">>
W630 == <<"6", "3", "0">>
W280 == <<"2", ".", "8", "0">>
W2804 == <<"2", ".", "8", "0", "4">>
W040 == <<"0", ".", "4", "0">>
W2030 == <<"2", "0", "3", "0">>
W2575 == <<"2", "5", "7", "5">>

LineDecember == <<DECEMBER>>
LineJanuary == <<JANUARY>>
LineJanuaryYear == <<JANUARY, W2030>>
LineFebruary == <<FEB>>
LineRow == <<W1, W630, W280, T1230, W040>>
LineRowAgain == <<W1, T0630, W2804, T0630, W040>>
LineRowThirty == <<W30, W630, W280, W2575, W040>>

Lines == {LineDecember, LineJanuary, LineJanuaryYear, LineFebruary,
          LineRow, LineRowAgain, LineRowThirty}

RECURSIVE TextsOfLen(_)
TextsOfLen(n) ==
    IF n = 0 THEN {<<>>}
    ELSE {Append(t, l) : t \in TextsOfLen(n - 1), l \in Lines}

\* page.extract_text(), split into its non-empty lines.
PageTexts == UNION {TextsOfLen(n) : n \in 0..MaxLines}

\* One of the lines names a month.
HasHeading(text) == \E k \in 1..Len(text) : MONTH_YEAR_RE(text[k]) # NoMatch

\* for page in pdf.pages: the next page is read.
NextPage ==
    /\ ppc = "page"
    /\ npages < MaxPages
    /\ \E text \in PageTexts : lines' = text
    /\ ln' = 1
    /\ ppc' = "headings"
    /\ npages' = npages + 1
    /\ UNCHANGED <<data, current_month, current_year, last_month_seen,
                   row_pairs, dkey, page_headed, prev_heading, rollover_from>>
    /\ UNCHANGED <<pvars, nvars>>

\* for ln in lines: set_month_from_line(ln)
ScanLine ==
    /\ ppc = "headings"
    /\ ln <= Len(lines)
    /\ LET new == set_month_from_line(lines[ln], current_month, current_year,
                                      last_month_seen)
           m == MONTH_YEAR_RE(lines[ln])
       IN  /\ current_month' = new[1]
           /\ current_year' = new[2]
           /\ last_month_seen' = new[3]
           /\ prev_heading' = IF m = NoMatch THEN prev_heading ELSE m.mnum
           /\ rollover_from' =
                 IF m = NoMatch THEN rollover_from
                 ELSE IF m.year = NoYear /\ m.mnum = 1 /\ prev_heading = 12
                     THEN current_year
                 ELSE IF m.year = NoYear /\ m.mnum = 1 /\ prev_heading = 1
                     THEN rollover_from
                 ELSE NoYear
    /\ ln' = ln + 1
    /\ UNCHANGED <<data, lines, ppc, row_pairs, dkey, npages, page_headed>>
    /\ UNCHANGED <<pvars, nvars>>

\* if not current_month: continue (the lines of the page are read no more).
SkipPage ==
    /\ ppc = "headings"
    /\ ln > Len(lines)
    /\ current_month = 0
    /\ ppc' = "page"
    /\ lines' = <<>>
    /\ ln' = 1
    /\ page_headed' = (page_headed \/ HasHeading(lines))
    /\ UNCHANGED <<data, current_month, current_year, last_month_seen,
                   row_pairs, dkey, npages, prev_heading, rollover_from>>
    /\ UNCHANGED <<pvars, nvars>>

\* The second loop over the lines of the page starts.
StartRows ==
    /\ ppc = "headings"
    /\ ln > Len(lines)
    /\ current_month # 0
    /\ ppc' = "rows"
    /\ ln' = 1
    /\ UNCHANGED <<data, current_month, current_year, last_month_seen, lines,
                   row_pairs, dkey, npages, page_headed, prev_heading,
                   rollover_from>>
    /\ UNCHANGED <<pvars, nvars>>

\* The line is no day row, has fewer than two pairs, or no valid date.
SkipLine ==
    /\ ppc = "rows"
    /\ ln <= Len(lines)
    /\ ~RowAccepted(lines[ln])
    /\ ln' = ln + 1
    /\ UNCHANGED <<data, current_month, current_year, last_month_seen, lines,
                   ppc, row_pairs, dkey, npages, page_headed, prev_heading,
                   rollover_from>>
    /\ UNCHANGED <<pvars, nvars>>

\* pairs and dkey of a day row are computed.
TakeRow ==
    /\ ppc = "rows"
    /\ ln <= Len(lines)
    /\ RowAccepted(lines[ln])
    /\ row_pairs' = ScanTokens(lines[ln], 1)
    /\ dkey' = <<current_year, current_month, DayNum(lines[ln])>>
    /\ ppc' = "add"
    /\ UNCHANGED <<data, current_month, current_year, last_month_seen, lines,
                   ln, npages, page_headed, prev_heading, rollover_from>>
    /\ UNCHANGED <<pvars, nvars>>

\* for t, h in pairs: add_event(dkey, t, h)
AddEvent ==
    /\ ppc = "add"
    /\ row_pairs # <<>>
    /\ data' = add_event(data, dkey, Head(row_pairs)[1], Head(row_pairs)[2])
    /\ row_pairs' = Tail(row_pairs)
    /\ UNCHANGED <<current_month, current_year, last_month_seen, lines, ln,
                   ppc, dkey, npages, page_headed, prev_heading, rollover_from>>
    /\ UNCHANGED <<pvars, nvars>>

\* The pairs of the row are added: on to the next line.
RowDone ==
    /\ ppc = "add"
    /\ row_pairs = <<>>
    /\ ppc' = "rows"
    /\ ln' = ln + 1
    /\ UNCHANGED <<data, current_month, current_year, last_month_seen, lines,
                   row_pairs, dkey, npages, page_headed, prev_heading,
                   rollover_from>>
    /\ UNCHANGED <<pvars, nvars>>

\* The lines of the page are exhausted (and read no more, as is dkey).
EndPage ==
    /\ ppc = "rows"
    /\ ln > Len(lines)
    /\ ppc' = "page"
    /\ lines' = <<>>
    /\ ln' = 1
    /\ dkey' = <<>>
    /\ page_headed' = (page_headed \/ HasHeading(lines))
    /\ UNCHANGED <<data, current_month, current_year, last_month_seen,
                   row_pairs, npages, prev_heading, rollover_from>>
    /\ UNCHANGED <<pvars, nvars>>

\* No page is left: every date's list is sorted by time, and data returned.
SortAndReturn ==
    /\ ppc = "page"
    /\ data' = [k \in DOMAIN data |-> SortByTime(data[k])]
    /\ ppc' = "done"
    /\ UNCHANGED <<current_month, current_year, last_month_seen, lines, ln,
                   row_pairs, dkey, npages, page_headed, prev_heading,
                   rollover_from>>
    /\ UNCHANGED <<pvars, nvars>>

\* current_month = None instead of a month.
ParserStartsInJanuary ==
    /\ data = <<>>
    /\ current_month = 1
    /\ current_year = base_year
    /\ last_month_seen = 0
    /\ lines = <<>>
    /\ ln = 1
    /\ ppc = "page"
    /\ row_pairs = <<>>
    /\ dkey = <<>>
    /\ npages = 0
    /\ page_headed = FALSE
    /\ prev_heading = 0
    /\ rollover_from = NoYear

\* The locals of parse_from_text before the first page.
ParserStart ==
    /\ data = <<>>
    /\ current_month = 0
    /\ current_year = base_year
    /\ last_month_seen = 0
    /\ lines = <<>>
    /\ ln = 1
    /\ ppc = "page"
    /\ row_pairs = <<>>
    /\ dkey = <<>>
    /\ npages = 0
    /\ page_headed = FALSE
    /\ prev_heading = 0
    /\ rollover_from = NoYear

-----------------------------------------------------------------------------
(* scripts/make_tide_next_json.py: classify, next_after, build_payload.     *)
(* An instant (a datetime) is a number; heights are in thousandths.         *)

MaxEvents == 5

Instants == 1..3

\* What now() may return.
Nows == 0..3

TurnHeights == {96, 104, 200}

\* to_iso(dt): the ISO string of an instant.
to_iso(dt) == <<"ISO", dt>>

\* What next_after returns for None.
NoEvent == [dt |-> None, height |-> None]

\* What build_payload returns is kept as a sequence: empty for None, else
\* holding the dict.
NoPayload == <<>>

\* classify(events): highs, the events from index 1 to len - 2 (0-based) not
\* lower than either neighbour, in the order of events.
highs(evs) ==
    LET at(k) == /\ evs[k].height >= evs[k - 1].height
                 /\ evs[k].height >= evs[k + 1].height
        F[k \in 1..Len(evs)] ==
            IF k >= Len(evs) THEN <<>>
            ELSE IF k >= 2 /\ at(k) THEN <<evs[k]>> \o F[k + 1]
            ELSE F[k + 1]
    IN  IF evs = <<>> THEN <<>> ELSE F[1]

\* classify(events): lows, those not higher than either neighbour.
lows(evs) ==
    LET at(k) == /\ evs[k].height <= evs[k - 1].height
                 /\ evs[k].height <= evs[k + 1].height
        F[k \in 1..Len(evs)] ==
            IF k >= Len(evs) THEN <<>>
            ELSE IF k >= 2 /\ at(k) THEN <<evs[k]>> \o F[k + 1]
            ELSE F[k + 1]
    IN  IF evs = <<>> THEN <<>> ELSE F[1]

\* next_after with e.dt >= t.
RECURSIVE NextAtOrAfter(_, _)
NextAtOrAfter(evs, t) ==
    IF evs = <<>> THEN NoEvent
    ELSE IF Head(evs).dt >= t THEN Head(evs)
    ELSE NextAtOrAfter(Tail(evs), t)

\* next_after(events, t): the first event with e.dt > t, NoEvent for None.
RECURSIVE next_after(_, _)
next_after(evs, t) ==
    IF evs = <<>> THEN NoEvent
    ELSE IF Head(evs).dt > t THEN Head(evs)
    ELSE next_after(Tail(evs), t)

Abs(x) == IF x < 0 THEN -x ELSE x

\* A further row of the CSV, in the order events.sort(key=dt) leaves.
LoadEvent ==
    /\ npc = "load"
    /\ Len(nt_events) < MaxEvents
    /\ \E e \in [dt : Instants, height : TurnHeights] :
          /\ nt_events # <<>> => nt_events[Len(nt_events)].dt <= e.dt
          /\ nt_events' = Append(nt_events, e)
    /\ UNCHANGED <<nt_now, payload, npc>>
    /\ UNCHANGED <<pvars, tvars>>

\* build_payload: if not events: return None
PayloadNoEvents ==
    /\ npc = "load"
    /\ nt_events = <<>>
    /\ payload' = NoPayload
    /\ npc' = "done"
    /\ UNCHANGED <<nt_events, nt_now>>
    /\ UNCHANGED <<pvars, tvars>>

\* build_payload: if not (nh and nl): return None
PayloadNoTurn ==
    /\ npc = "load"
    /\ nt_events # <<>>
    /\ \E current \in Nows :
          /\ nt_now' = current
          /\ \/ next_after(highs(nt_events), current) = NoEvent
             \/ next_after(lows(nt_events), current) = NoEvent
    /\ payload' = NoPayload
    /\ npc' = "done"
    /\ UNCHANGED nt_events
    /\ UNCHANGED <<pvars, tvars>>

\* build_payload: the dict of the next high and the next low is returned.
PayloadFound ==
    /\ npc = "load"
    /\ nt_events # <<>>
    /\ \E current \in Nows :
          LET nh == next_after(highs(nt_events), current)
              nl == next_after(lows(nt_events), current)
          IN  /\ nt_now' = current
              /\ nh # NoEvent
              /\ nl # NoEvent
              /\ payload' =
                    <<[nextHighISO |-> to_iso(nh.dt),
                       nextLowISO |-> to_iso(nl.dt),
                       nextHigh_m |-> Round2(nh.height),
                       nextLow_m |-> Round2(nl.height),
                       range_m |-> Round2(Abs(nh.height - nl.height))]>>
    /\ npc' = "done"
    /\ UNCHANGED nt_events
    /\ UNCHANGED <<pvars, tvars>>

\* The finder before a station's events are loaded.
FinderStart ==
    /\ nt_events = <<>>
    /\ nt_now = 0
    /\ payload = NoPayload
    /\ npc = "load"

-----------------------------------------------------------------------------
(* The idempotence experiment: the emitted pairs, flattened into the        *)
(* alternating points low1, high1, low2, high2, ..., are paired again.      *)

RECURSIVE Flatten(_)
Flatten(ps) ==
    IF ps = <<>> THEN <<>>
    ELSE <<[time_hhmm |-> Head(ps).low_time, height_m |-> Head(ps).low_m],
           [time_hhmm |-> Head(ps).high_time, height_m |-> Head(ps).high_m]>>
         \o Flatten(Tail(ps))

RECURSIVE FlattenLabelled(_)
FlattenLabelled(ps) ==
    IF ps = <<>> THEN <<>>
    ELSE <<<<Head(ps).low_time, Head(ps).low_m, "low">>,
           <<Head(ps).high_time, Head(ps).high_m, "high">>>>
         \o FlattenLabelled(Tail(ps))

\* The whole function is called again on the flattened points.
RerunFunction ==
    /\ pc = "done"
    /\ run = "first"
    /\ events' = Flatten(pairs)
    /\ first_pairs' = pairs
    /\ classified' = <<>>
    /\ pairs' = <<>>
    /\ i' = 0
    /\ run' = "function"
    /\ pc' = "start"
    /\ UNCHANGED <<tvars, nvars>>

\* Only the pairing loop is run again, on the flattened points with the
\* labels they were paired under.
RerunPairer ==
    /\ pc = "done"
    /\ run = "first"
    /\ classified' = FlattenLabelled(pairs)
    /\ first_pairs' = pairs
    /\ pairs' = <<>>
    /\ i' = 0
    /\ run' = "pairer"
    /\ pc' = "pair"
    /\ UNCHANGED events
    /\ UNCHANGED <<tvars, nvars>>

-----------------------------------------------------------------------------
(* The days the event store can hold: time-sorted (the parsers sort every   *)
(* date's list before returning), no two observations with the same time    *)
(* and the same rounded height (add_event).  A day is built up one          *)
(* observation at a time, then handed to build_low_to_high_pairs.           *)

Observations == [time_hhmm : Times, height_m : Heights]

\* o may be stored after the observations of s: not earlier than the last of
\* them, and no duplicate of one of them.
CanFollow(s, o) ==
    /\ s # <<>> => ~StrLess(o.time_hhmm, s[Len(s)].time_hhmm)
    /\ \A a \in 1..Len(s) :
          s[a].time_hhmm = o.time_hhmm
              => Round2(s[a].height_m) # Round2(o.height_m)

\* The caller reads one more observation of the day from the store.
Observe ==
    /\ pc = "input"
    /\ Len(events) < MaxLen
    /\ \E o \in Observations :
          /\ CanFollow(events, o)
          /\ events' = Append(events, o)
    /\ UNCHANGED <<classified, pairs, i, pc, run, first_pairs>>
    /\ UNCHANGED <<tvars, nvars>>

\* pairs = build_low_to_high_pairs(events)
Call ==
    /\ pc = "input"
    /\ pc' = "start"
    /\ UNCHANGED <<events, classified, pairs, i, run, first_pairs>>
    /\ UNCHANGED <<tvars, nvars>>

\* The pairer before a day is read.
PairerStart ==
    /\ events = <<>>
    /\ classified = <<>>
    /\ pairs = <<>>
    /\ i = 0
    /\ pc = "input"
    /\ run = "first"
    /\ first_pairs = <<>>

InitPairs ==
    /\ PairerStart
    /\ ParserStart
    /\ FinderStart

NextPairs ==
    \/ Observe
    \/ Call
    \/ ReturnEmpty
    \/ ClassifyAll
    \/ SkipNotLow
    \/ BreakNoHigh
    \/ RejectNotRising
    \/ EmitPair
    \/ LoopEnd
    \/ RerunFunction
    \/ RerunPairer

SpecPairs == InitPairs /\ [][NextPairs]_vars

InitParse ==
    /\ ParserStart
    /\ PairerStart
    /\ FinderStart

NextParse ==
    \/ NextPage
    \/ ScanLine
    \/ SkipPage
    \/ StartRows
    \/ SkipLine
    \/ TakeRow
    \/ AddEvent
    \/ RowDone
    \/ EndPage
    \/ SortAndReturn

SpecParse == InitParse /\ [][NextParse]_vars

InitNext ==
    /\ FinderStart
    /\ PairerStart
    /\ ParserStart

NextNext ==
    \/ LoadEvent
    \/ PayloadNoEvents
    \/ PayloadNoTurn
    \/ PayloadFound

SpecNext == InitNext /\ [][NextNext]_vars


-----------------------------------------------------------------------------
(* Properties of build_low_to_high_pairs *)

\* The day's observations in time order, and their heights as ingested.
SortedEvents == SortByTime(events)

RawHeights == [k \in 1..Len(SortedEvents) |-> SortedEvents[k].height_m]

Returned == pc = "done" /\ run = "first"

\* C1: every emitted pair has move_m = high_m - low_m, move_m > 0, and a
\* high_time strictly later than its low_time.
C1_PairsRiseAndHighLater ==
    run = "first" =>
        \A k \in 1..Len(pairs) :
            /\ pairs[k].move_m = pairs[k].high_m - pairs[k].low_m
            /\ pairs[k].move_m > 0
            /\ StrLess(pairs[k].low_time, pairs[k].high_time)

TwoObservations ==
    /\ Returned
    /\ Len(events) = 2
    /\ StrLess(events[1].time_hhmm, events[2].time_hhmm)

TwoLabels ==
    /\ Len(classified) = 2
    /\ classified[1][3] =
          (IF events[1].height_m <= events[2].height_m THEN "low" ELSE "high")
    /\ classified[2][3] =
          (IF events[1].height_m <= events[2].height_m THEN "high" ELSE "low")

\* C2 as stated: a day of two observations (t1,h1), (t2,h2), t1 before t2,
\* labels the smaller height low and the larger high (tie: first low), and
\* yields exactly one pair iff h2 > h1 as ingested, else none.
C2_OnePairIffRawRise ==
    TwoObservations =>
        /\ TwoLabels
        /\ Len(pairs) <= 1
        /\ Len(pairs) = 1 <=> events[2].height_m > events[1].height_m

\* C2 amended: the same, with the heights compared after rounding to two
\* decimals: exactly one pair iff round(h2, 2) > round(h1, 2), else none.
C2_OnePairIffRoundedRise ==
    TwoObservations =>
        /\ TwoLabels
        /\ Len(pairs) <= 1
        /\ Len(pairs) = 1 <=>
              Round2(events[2].height_m) > Round2(events[1].height_m)
        /\ Len(pairs) = 1 =>
              /\ pairs[1].low_time = events[1].time_hhmm
              /\ pairs[1].high_time = events[2].time_hhmm

\* Two observations that rise as ingested but not after rounding: no pair.
C2_Witness ==
    /\ TwoObservations
    /\ events[2].height_m > events[1].height_m
    /\ Round2(events[2].height_m) = Round2(events[1].height_m)
    /\ pairs = <<>>

\* The rule of the classifier for index k (1-based) of the heights hs.
RuleKind(hs, k) ==
    IF k = 1 THEN (IF hs[1] <= hs[2] THEN "low" ELSE "high")
    ELSE IF k = Len(hs)
        THEN (IF hs[k] >= hs[k - 1] THEN "high" ELSE "low")
    ELSE IF hs[k] <= hs[k - 1] /\ hs[k] <= hs[k + 1] THEN "low"
    ELSE IF hs[k] >= hs[k - 1] /\ hs[k] >= hs[k + 1] THEN "high"
    ELSE IF hs[k] > hs[k - 1] THEN "high" ELSE "low"

\* C3: every index of a day of n >= 2 observations gets exactly one label,
\* the one of the rule in its priority order (an interior point equal to both
\* neighbours is low); a day of fewer than 2 has no classified points and no
\* pairs.
C3_ClassificationRule ==
    (pc \in {"pair", "done"} /\ run # "pairer") =>
        IF Len(events) >= 2
        THEN /\ Len(classified) = Len(events)
             /\ \A k \in 1..Len(classified) :
                   /\ classified[k][3] \in {"low", "high"}
                   /\ classified[k][3] = RuleKind(RawHeights, k)
                   /\ (k > 1 /\ k < Len(classified)
                         /\ RawHeights[k] = RawHeights[k - 1]
                         /\ RawHeights[k] = RawHeights[k + 1])
                        => classified[k][3] = "low"
        ELSE classified = <<>> /\ pairs = <<>>

\* An interior point level with both neighbours has been classified.
C3_Witness ==
    /\ pc = "pair"
    /\ run = "first"
    /\ \E k \in 2..(Len(classified) - 1) :
          /\ RawHeights[k] = RawHeights[k - 1]
          /\ RawHeights[k] = RawHeights[k + 1]
          /\ classified[k][3] = "low"

NonDecreasing(hs) == \A k \in 1..(Len(hs) - 1) : hs[k] <= hs[k + 1]

StrictlyIncreasing(hs) == \A k \in 1..(Len(hs) - 1) : hs[k] < hs[k + 1]

\* C4 as stated: a day whose time-ordered heights never fall (plateaus
\* allowed) yields at most one pair.
C4_MonotoneAtMostOnePair ==
    (Returned /\ NonDecreasing(RawHeights)) => Len(pairs) <= 1

\* C4 amended: a day whose time-ordered heights strictly rise yields at most
\* one pair; a day whose heights never fall yields at most floor(n/2) pairs.
C4_RisingAtMostOnePair ==
    /\ (Returned /\ StrictlyIncreasing(RawHeights)) => Len(pairs) <= 1
    /\ (Returned /\ NonDecreasing(RawHeights))
          => Len(pairs) <= Len(events) \div 2

\* A strictly rising day of three or more observations has yielded its pair.
C4_Witness ==
    /\ Returned
    /\ Len(events) >= 3
    /\ StrictlyIncreasing(RawHeights)
    /\ Len(pairs) = 1

\* C5 as stated: build_low_to_high_pairs, given the flattened pairs of a
\* day as observations, returns the same pairs.
C5_FunctionIdempotent ==
    (pc = "done" /\ run = "function") => pairs = first_pairs

\* No low of a later pair lies above the high of the pair before it.
LowsNotAboveHighs(ps) ==
    \A k \in 2..Len(ps) : ps[k].low_m <= ps[k - 1].high_m

\* C5 amended: the pairing loop, given the flattened pairs with the labels
\* low, high, low, high, ..., returns the same pairs; the whole function does
\* so when no later low lies above the high of the preceding pair.
C5_PairerIdempotent ==
    /\ (pc = "done" /\ run = "pairer") => pairs = first_pairs
    /\ (pc = "done" /\ run = "function" /\ LowsNotAboveHighs(first_pairs))
          => pairs = first_pairs

\* Two pairs, the second low above the first high, paired again alike.
C5_Witness ==
    /\ pc = "done"
    /\ run = "pairer"
    /\ Len(first_pairs) = 2
    /\ first_pairs[2].low_m > first_pairs[1].high_m
    /\ pairs = first_pairs

\* The left-to-right scan of the classified points cl from position pos
\* (0-based): at a low, the nearest later high; none: stop; not higher than
\* the low: go on after the low; else a pair, and go on after the high.
RECURSIVE ScanFrom(_, _)
ScanFrom(cl, pos) ==
    IF pos >= Len(cl) THEN <<>>
    ELSE IF cl[pos + 1][3] # "low" THEN ScanFrom(cl, pos + 1)
    ELSE LET later == {k \in (pos + 1)..(Len(cl) - 1) : cl[k + 1][3] = "high"}
         IN  IF later = {} THEN <<>>
             ELSE LET j == CHOOSE k \in later : \A m \in later : k <= m
                      lo == cl[pos + 1]
                      hi == cl[j + 1]
                  IN  IF hi[2] > lo[2]
                      THEN <<[low_time |-> lo[1], low_m |-> lo[2],
                              high_time |-> hi[1], high_m |-> hi[2],
                              move_m |-> hi[2] - lo[2]]>>
                           \o ScanFrom(cl, j + 1)
                      ELSE ScanFrom(cl, pos + 1)

\* C6: the pairs of the pairing loop are those of the left-to-right scan,
\* at its end and, with the part of the scan still to come, at every step.
C6_PairsAreTheScan ==
    /\ pc = "done" => pairs = ScanFrom(classified, 0)
    /\ pc = "pair" => pairs \o ScanFrom(classified, i) = ScanFrom(classified, 0)

\* A low was rejected against a high that a later low was then paired with.
C6_Witness ==
    /\ Returned
    /\ \E a \in 0..(Len(classified) - 1) : \E b \in 0..(Len(classified) - 1) :
          LET j == NextHigh(classified, a + 1)
          IN  /\ a < b
              /\ classified[a + 1][3] = "low"
              /\ classified[b + 1][3] = "low"
              /\ j < Len(classified)
              /\ b < j
              /\ classified[j + 1][2] <= classified[a + 1][2]
              /\ classified[j + 1][2] > classified[b + 1][2]
              /\ \E k \in 1..Len(pairs) :
                    /\ pairs[k].low_time = classified[b + 1][1]
                    /\ pairs[k].low_m = classified[b + 1][2]
                    /\ pairs[k].high_time = classified[j + 1][1]
                    /\ pairs[k].high_m = classified[j + 1][2]

-----------------------------------------------------------------------------
(* Properties of parse_from_text *)

NoDuplicates(d) ==
    \A k \in DOMAIN d : \A a \in 1..Len(d[k]) : \A b \in 1..Len(d[k]) :
        a # b => ~(/\ d[k][a].time_hhmm = d[k][b].time_hhmm
                   /\ Round2(d[k][a].height_m) = Round2(d[k][b].height_m))

ListOf(d, k) == IF k \in DOMAIN d THEN d[k] ELSE <<>>

\* C7: no date's list ever holds two observations with the same zero-padded
\* time and the same height rounded to 2 decimals; an add_event whose (time,
\* rounded height) is already there leaves the store unchanged, any other is
\* appended, also when only its time is already there.
C7_StoreDeduplicates ==
    [][/\ NoDuplicates(data')
       /\ (ppc = "add" /\ row_pairs # <<>>) =>
             LET t == ztime(Head(row_pairs)[1])
                 h == Head(row_pairs)[2]
                 old == ListOf(data, dkey)
                 held == \E x \in 1..Len(old) :
                            /\ old[x].time_hhmm = t
                            /\ Round2(old[x].height_m) = Round2(h)
             IN  /\ held => data' = data
                 /\ ~held =>
                       /\ ListOf(data', dkey)
                             = Append(old, [time_hhmm |-> t, height_m |-> h])
                       /\ \A k \in DOMAIN data : k # dkey => data'[k] = data[k]
                       /\ DOMAIN data' = DOMAIN data \cup {dkey}]_vars

\* The row "1 0630 2.804 0630 0.40" met "1 630 2.80 1230 0.40" of the same
\* date: its first pair was dropped, its second kept beside 0630 2.80.
C7_Witness ==
    /\ ppc = "add"
    /\ row_pairs = <<>>
    /\ lines[ln] = LineRowAgain
    /\ Len(ListOf(data, dkey)) = 3
    /\ \E a \in 1..3 : \E b \in 1..3 :
          /\ a # b
          /\ data[dkey][a].time_hhmm = data[dkey][b].time_hhmm
          /\ data[dkey][a].height_m = 2800
          /\ data[dkey][b].height_m = 400

\* C8: a heading with a year sets current_year to it; a heading without one
\* adds 1 to current_year if and only if it is month 1 and the heading before
\* it was month 12, and leaves it alone otherwise; a row stored while the
\* latest headings are a year-less DECEMBER -> JANUARY (JANUARY repeated or
\* not) is dated January of the year after the one DECEMBER was in.
C8_Rollover ==
    [][/\ (ppc = "headings" /\ ln <= Len(lines)
             /\ MONTH_YEAR_RE(lines[ln]) # NoMatch) =>
             LET m == MONTH_YEAR_RE(lines[ln])
             IN  /\ m.year # NoYear => current_year' = m.year
                 /\ (m.year = NoYear /\ m.mnum = 1 /\ prev_heading = 12)
                       => current_year' = current_year + 1
                 /\ (m.year = NoYear /\ ~(m.mnum = 1 /\ prev_heading = 12))
                       => current_year' = current_year
       /\ (ppc = "add" /\ rollover_from # NoYear) =>
             \A k \in DOMAIN data' :
                 (k \notin DOMAIN data \/ data'[k] # ListOf(data, k))
                     => (k[1] = rollover_from + 1 /\ k[2] = 1)]_vars

\* After DECEMBER, JANUARY without years a row of day 1 is stored.
C8_Witness ==
    /\ rollover_from = base_year
    /\ prev_heading = 1
    /\ current_year = base_year + 1
    /\ <<base_year + 1, 1, 1>> \in DOMAIN data

\* The line at ln is a day row with no heading above it, on this page or on
\* an earlier one.
RowAboveFirstHeading ==
    /\ ppc \in {"rows", "add"}
    /\ ~page_headed
    /\ ln <= Len(lines)
    /\ DayNum(lines[ln]) # 0
    /\ \A k \in 1..(ln - 1) : MONTH_YEAR_RE(lines[k]) = NoMatch

\* C9 as stated: a day row that comes before the first heading in line order
\* adds no observation.
C9_RowBeforeHeadingDiscarded ==
    [][RowAboveFirstHeading => data' = data]_vars

\* C9 amended: while no heading has occurred on the page being read or on an
\* earlier page, nothing is stored.
C9_HeadlessPagesDiscarded ==
    [][(~page_headed /\ ~HasHeading(lines)) => (data' = data /\ data = <<>>)]_vars

\* A page with a day row and no heading, none before it either, is skipped.
C9_Witness ==
    /\ ppc = "headings"
    /\ ln > Len(lines)
    /\ ~page_headed
    /\ ~HasHeading(lines)
    /\ \E k \in 1..Len(lines) : RowAccepted(lines[k]) \/ DayNum(lines[k]) # 0
    /\ current_month = 0
    /\ data = <<>>

-----------------------------------------------------------------------------
(* Properties of build_payload *)

\* The indices of the events classified high (low) and later than now.
FutureHighs ==
    {k \in 2..(Len(nt_events) - 1) :
        /\ nt_events[k].height >= nt_events[k - 1].height
        /\ nt_events[k].height >= nt_events[k + 1].height
        /\ nt_events[k].dt > nt_now}

FutureLows ==
    {k \in 2..(Len(nt_events) - 1) :
        /\ nt_events[k].height <= nt_events[k - 1].height
        /\ nt_events[k].height <= nt_events[k + 1].height
        /\ nt_events[k].dt > nt_now}

\* The first of the indices at the earliest instant among them.
Earliest(at) ==
    CHOOSE k \in at : \A m \in at :
        \/ nt_events[k].dt < nt_events[m].dt
        \/ (nt_events[k].dt = nt_events[m].dt /\ k <= m)

\* C10: the payload names the earliest event classified high later than now
\* and the earliest event classified low later than now, never one at now;
\* it is None exactly when there is no such high or no such low, and always
\* with fewer than 3 events.
C10_NextTurns ==
    npc = "done" =>
        /\ payload = NoPayload <=> (FutureHighs = {} \/ FutureLows = {})
        /\ Len(nt_events) < 3 => payload = NoPayload
        /\ payload # NoPayload =>
              LET h == nt_events[Earliest(FutureHighs)]
                  l == nt_events[Earliest(FutureLows)]
              IN  /\ payload[1].nextHighISO = to_iso(h.dt)
                  /\ payload[1].nextHigh_m = Round2(h.height)
                  /\ payload[1].nextLowISO = to_iso(l.dt)
                  /\ payload[1].nextLow_m = Round2(l.height)
                  /\ payload[1].nextHighISO[2] > nt_now
                  /\ payload[1].nextLowISO[2] > nt_now

\* An event at now is classified high and is passed over for a later one.
C10_Witness ==
    /\ npc = "done"
    /\ payload # NoPayload
    /\ \E k \in 2..(Len(nt_events) - 1) :
          /\ nt_events[k].dt = nt_now
          /\ nt_events[k].height >= nt_events[k - 1].height
          /\ nt_events[k].height >= nt_events[k + 1].height
          /\ nt_events[k].height > nt_events[k + 1].height
    /\ payload[1].nextHighISO[2] > nt_now

\* A zero-padded clock value HHMM: four digits, HH in 00..23, MM in 00..59.
IsClock(t) ==
    /\ Len(t) = 4
    /\ IsDigits(t)
    /\ IntOf(SubSeq(t, 1, 2)) \in 0..23
    /\ IntOf(SubSeq(t, 3, 4)) \in 0..59

\* C11: every observation in the store has a time-of-day that is a zero-padded
\* 4-digit clock value HHMM in the range 0000-2359.
C11_StoredTimesAreClockValues ==
    \A d \in DOMAIN data : \A k \in 1..Len(data[d]) :
        IsClock(data[d][k].time_hhmm)

=============================================================================
